---- MODULE Spec2Model ----
(***************************************************************************)
(* Usage metering and entitlement enforcement of the e-signature service:  *)
(* the usage ledger (usage_records), the plan resolver, the quota gate,    *)
(* the threshold alert tracker (email_notifications) and the upload        *)
(* handler that drives them.  recordUsage and getUsageThresholdAlerts are  *)
(* modelled await by await: each database round trip is one step, so that  *)
(* concurrent callers interleave where the event loop lets them.  A call   *)
(* of the quota gate only reads and is one step; inside an upload request  *)
(* the alert evaluation is one step as well.                               *)
(***************************************************************************)
EXTENDS Integers, Sequences, FiniteSets, Bags, TLC

\* ------------------------------------------------------------------ bounds
MaxInFlight == 2      \* calls / requests in flight at the same time
MaxCalls == 3         \* recordUsage calls started in one behaviour of the ledger
MaxGateCalls == 2     \* recordUsage calls started before the quota gate is asked
MaxAlertCalls == 4    \* calls started in one behaviour of the alert tracker
MaxRequests == 3      \* upload requests handled one after the other in one behaviour
MaxRaceRequests == 4  \* upload requests without recipients started in one behaviour
MaxMonth == 2         \* billing periods the clock runs through
MaxAmount == 2        \* largest count handed to recordUsage
MaxClock == 2         \* last millisecond Date.now() reaches (in-memory store ids)

Procs == 1..MaxInFlight
Months == 1..MaxMonth
Amounts == 1..MaxAmount

\* ------------------------------------------------------------ static data
NoPlan == "null"
NoUser == "none"
NoKind == "none"

NoEmail == "null"

\* rows of the users table: the tenant, its plan reference and its e-mail
\* address (a nullable column)
users ==
  [u1 |-> [subscriptionPlan |-> "starter", email |-> "u1@example.com"],
   u2 |-> [subscriptionPlan |-> "pro",     email |-> NoEmail],
   u3 |-> [subscriptionPlan |-> NoPlan,    email |-> "u3@example.com"],
   u4 |-> [subscriptionPlan |-> "legacy",  email |-> "u4@example.com"]]

UserIds == DOMAIN users
\* the tenants whose usage the bare ledger calls record
LedgerUsers == {"u1", "u2"}
\* the tenants whose alerts are evaluated: one with a plan, one without
AlertUsers == {"u1", "u3"}
\* tenants whose usage is recorded before the quota gate is asked
GateUsers == {"u1", "u4"}

\* rows of the subscription_plans table ("legacy" is referenced by u4 and absent)
subscriptionPlans ==
  [starter |-> [id |-> "starter", documentsLimit |-> 2, envelopesLimit |-> 1,
                aiRequestsLimit |-> 5],
   pro     |-> [id |-> "pro", documentsLimit |-> 4, envelopesLimit |-> 2,
                aiRequestsLimit |-> 1]]

\* the plan MockStorage.getUserSubscriptionPlan answers for every user
MockPlan ==
  [id |-> "plan_starter", documentsLimit |-> 50, envelopesLimit |-> 50,
   aiRequestsLimit |-> 100]

RecordTypes == <<"document", "envelope", "ai_request">>
Kinds == {RecordTypes[i] : i \in 1..3}

\* action vocabulary of canPerformAction
recordTypeMap ==
  [upload_document |-> "document", create_envelope |-> "envelope",
   ai_request |-> "ai_request"]
ActionTypes == DOMAIN recordTypeMap

thresholds == <<80, 90, 100>>

\* messages are tuples of their words and interpolated values; undefined is <<>>
NoMessage == <<>>
NoPlanMessage == <<"No subscription plan found">>
InvalidActionMessage == <<"Invalid action type">>
\* `You have reached your ${recordType} limit of ${limit} for this month. ...`
LimitMessage(recordType, limit) == <<"You have reached your limit", recordType, limit>>

\* --------------------------------------------------------------- variables
VARIABLES
  backend,             \* "database" | "mock": storage selected at start-up
  month,               \* new Date().toISOString().slice(0, 7), as a month number
  clock,               \* Date.now(), read by the in-memory store for its ids
  usageRecords,        \* usage_records: id -> row
  emailNotifications,  \* email_notifications rows written by recordThresholdAlert (a bag)
  call,                \* per process: the storage call it is executing
  answer,              \* the answer the quota gate has just returned, with its arguments
  req,                 \* per process: the upload request it is handling, with the
                       \* log of the sub-steps it has taken (history)
  documents,           \* documents: id -> row
  started,             \* number of calls started so far
  recorded,            \* history: sum of the counts handed to recordUsage, per key
  emitted,             \* history: alert entries pushed by getUsageThresholdAlerts,
                       \* reminders sent, timers created (a bag)
  isInitialized        \* the flag of the serverless handler: routes are registered

vars == <<backend, month, clock, usageRecords, emailNotifications, call, answer,
          req, documents, started, recorded, emitted, isInitialized>>

\* row ids are opaque (gen_random_uuid(), `usage_${Date.now()}`): tuples here
NoRow == <<>>
NoRows == [id \in {} |-> 0]

ZeroUsage == [documents |-> 0, envelopes |-> 0, aiRequests |-> 0]
NoResult == [allowed |-> FALSE, current |-> 0, limit |-> 0, message |-> NoMessage]

IdleCall ==
  [op |-> "idle", pc |-> "idle", userId |-> NoUser, recordType |-> NoKind,
   count |-> 0, recordMonth |-> 0, existing |-> NoRow, usage |-> ZeroUsage,
   plan |-> NoPlan, idx |-> 0, tidx |-> 0, alerts |-> <<>>]

NoAnswer ==
  [op |-> "none", userId |-> NoUser, recordType |-> NoKind, actionType |-> NoKind,
   month |-> 0, result |-> NoResult]

IdleReq ==
  [pc |-> "idle", userId |-> NoUser, stage |-> NoKind, currentMonth |-> 0,
   recipientsData |-> FALSE, documentId |-> NoRow, status |-> 0, code |-> "",
   message |-> NoMessage, log |-> <<>>]

Keys == UserIds \X Kinds \X Months

\* ---------------------------------------------------------------- ledger
RECURSIVE SumCounts(_, _)
SumCounts(rows, ids) ==
  IF ids = {} THEN 0
  ELSE LET i == CHOOSE x \in ids : TRUE
       IN rows[i].count + SumCounts(rows, ids \ {i})

\* ids of the rows of one (user, type, month)
RowsOf(rows, userId, recordType, m) ==
  {i \in DOMAIN rows : /\ rows[i].userId = userId
                       /\ rows[i].recordType = recordType
                       /\ rows[i].recordMonth = m}

\* select record_type, sum(count) ... group by record_type, absent kinds 0
getUsageForMonth(rows, userId, m) ==
  [documents  |-> SumCounts(rows, RowsOf(rows, userId, "document", m)),
   envelopes  |-> SumCounts(rows, RowsOf(rows, userId, "envelope", m)),
   aiRequests |-> SumCounts(rows, RowsOf(rows, userId, "ai_request", m))]

UsageOfKind(usage, recordType) ==
  CASE recordType = "document" -> usage.documents
    [] recordType = "envelope" -> usage.envelopes
    [] recordType = "ai_request" -> usage.aiRequests

LimitOfKind(plan, recordType) ==
  CASE recordType = "document" -> plan.documentsLimit
    [] recordType = "envelope" -> plan.envelopesLimit
    [] recordType = "ai_request" -> plan.aiRequestsLimit

\* usage.count || 1
CountOrOne(count) == IF count = 0 THEN 1 ELSE count

\* a write of the count the caller computed, in place of the increment in SQL
OverwrittenCount(old, count) == CountOrOne(count)

\* .set({ count: sql`${usageRecords.count} + ${usage.count || 1}` })
IncrementedCount(old, count) == old + CountOrOne(count)

\* ------------------------------------------------------- plan resolution
\* a resolver that falls back to the default plan when the reference is unusable
getUserSubscriptionPlanOrDefault(userId) ==
  IF userId \in DOMAIN users
     /\ users[userId].subscriptionPlan \in DOMAIN subscriptionPlans
  THEN users[userId].subscriptionPlan
  ELSE "starter"

\* the plan id the user's row resolves to, or NoPlan
getUserSubscriptionPlan(userId) ==
  IF userId \notin DOMAIN users THEN NoPlan
  ELSE IF users[userId].subscriptionPlan = NoPlan THEN NoPlan
  ELSE IF users[userId].subscriptionPlan \in DOMAIN subscriptionPlans
       THEN users[userId].subscriptionPlan
       ELSE NoPlan

\* ------------------------------------------------------------ quota gate
\* the gate with an inclusive comparison: one action too many
checkUsageLimitsInclusive(rows, userId, recordType, m) ==
  LET usage == getUsageForMonth(rows, userId, m)
      plan == getUserSubscriptionPlan(userId)
  IN IF plan = NoPlan
     THEN [allowed |-> FALSE, current |-> 0, limit |-> 0, message |-> NoPlanMessage]
     ELSE LET current == UsageOfKind(usage, recordType)
              limit == LimitOfKind(subscriptionPlans[plan], recordType)
              allowed == current <= limit
          IN [allowed |-> allowed, current |-> current, limit |-> limit,
              message |-> IF allowed THEN NoMessage
                          ELSE LimitMessage(recordType, limit)]

\* DatabaseStorage.checkUsageLimits, on the rows it reads
checkUsageLimits(rows, userId, recordType, m) ==
  LET usage == getUsageForMonth(rows, userId, m)
      plan == getUserSubscriptionPlan(userId)
  IN IF plan = NoPlan
     THEN [allowed |-> FALSE, current |-> 0, limit |-> 0, message |-> NoPlanMessage]
     ELSE LET current == UsageOfKind(usage, recordType)
              limit == LimitOfKind(subscriptionPlans[plan], recordType)
              allowed == current < limit
          IN [allowed |-> allowed, current |-> current, limit |-> limit,
              message |-> IF allowed THEN NoMessage
                          ELSE LimitMessage(recordType, limit)]

\* DatabaseStorage.canPerformAction: the facade over checkUsageLimits
canPerformAction(rows, userId, actionType, m) ==
  IF actionType \notin DOMAIN recordTypeMap
  THEN [allowed |-> FALSE, current |-> 0, limit |-> 0, message |-> InvalidActionMessage]
  ELSE LET result == checkUsageLimits(rows, userId, recordTypeMap[actionType], m)
       IN [allowed |-> result.allowed, current |-> 0, limit |-> 0,
           message |-> result.message]

\* MockStorage.checkUsageLimits: the same comparison against the built-in plan
MockCheckUsageLimits(rows, userId, recordType, m) ==
  LET usage == getUsageForMonth(rows, userId, m)
      current == UsageOfKind(usage, recordType)
      limit == LimitOfKind(MockPlan, recordType)
      allowed == current < limit
  IN [allowed |-> allowed, current |-> current, limit |-> limit,
      message |-> IF allowed THEN NoMessage ELSE LimitMessage(recordType, limit)]

\* MockStorage.canPerformAction: always allow
MockCanPerformAction(rows, userId, actionType, m) ==
  [allowed |-> TRUE, current |-> 0, limit |-> 0, message |-> NoMessage]

\* ------------------------------------------------------- threshold alerts
\* Math.round((current / limit) * 100), limit > 0
Percentage(current, limit) == (200 * current + limit) \div (2 * limit)

\* for (const threshold of thresholds) { if (percentage >= threshold) { ...; break; } }
\* the threshold at which the scan stops, 0 when it runs to the end
RECURSIVE ScanThresholds(_, _)
ScanThresholds(percentage, i) ==
  IF i > Len(thresholds) THEN 0
  ELSE IF percentage >= thresholds[i] THEN thresholds[i]
  ELSE ScanThresholds(percentage, i + 1)

usageData(usage, plan) ==
  << [type |-> "documents",   current |-> usage.documents,  limit |-> plan.documentsLimit],
     [type |-> "envelopes",   current |-> usage.envelopes,  limit |-> plan.envelopesLimit],
     [type |-> "ai_requests", current |-> usage.aiRequests, limit |-> plan.aiRequestsLimit] >>

AlertTypes == {"documents", "envelopes", "ai_requests"}

\* the threshold the scan of one usageData entry stops at (0: none, or limit = 0)
ThresholdOf(data) ==
  IF data.limit > 0 THEN ScanThresholds(Percentage(data.current, data.limit), 1) ELSE 0

\* the next usageData index >= from whose scan reaches hasBeenAlertedForThreshold
RECURSIVE NextIdx(_, _, _)
NextIdx(usage, plan, from) ==
  IF from > 3 THEN 4
  ELSE IF ThresholdOf(usageData(usage, plan)[from]) # 0 THEN from
  ELSE NextIdx(usage, plan, from + 1)

\* `usage_alert_${recordType}_${threshold}`
EmailType(recordType, threshold) == <<"usage_alert", recordType, threshold>>
\* `Usage Alert: ${threshold}% of ${recordType} limit reached`
Subject(recordType, threshold) == <<"Usage Alert", threshold, recordType>>

\* a select by emailType and subject alone
hasBeenAlertedForThresholdAnyTenant(notifications, userId, recordType, threshold, m) ==
  \E n \in BagToSet(notifications) :
     /\ n.emailType = EmailType(recordType, threshold)
     /\ n.subject = Subject(recordType, threshold)

\* the select of hasBeenAlertedForThreshold: userId, emailType and subject; the
\* month parameter takes no part in the query
hasBeenAlertedForThreshold(notifications, userId, recordType, threshold, m) ==
  \E n \in BagToSet(notifications) :
     /\ n.userId = userId
     /\ n.emailType = EmailType(recordType, threshold)
     /\ n.subject = Subject(recordType, threshold)

\* the row recordThresholdAlert inserts; sentAt is new Date() at the insert
ThresholdAlertRow(userId, recordType, threshold, m, sentAt) ==
  [userId |-> userId, recipientEmail |-> "",
   emailType |-> EmailType(recordType, threshold),
   subject |-> Subject(recordType, threshold), status |-> "sent", sentAt |-> sentAt]

\* the alerts one call returns when nothing happens between its reads and its
\* writes: per kind the threshold the scan stops at, unless it is recorded
getUsageThresholdAlerts(rows, notifications, userId, m) ==
  LET plan == getUserSubscriptionPlan(userId)
  IN IF plan = NoPlan THEN {}
     ELSE LET data == usageData(getUsageForMonth(rows, userId, m),
                                subscriptionPlans[plan])
          IN {[recordType |-> data[i].type, percentage |-> ThresholdOf(data[i]),
               current |-> data[i].current, limit |-> data[i].limit] :
                i \in {n \in 1..3 :
                         /\ ThresholdOf(data[n]) # 0
                         /\ ~hasBeenAlertedForThreshold(notifications, userId,
                               data[n].type, ThresholdOf(data[n]), m)}}

\* ------------------------------------------------------------------ Init
Init ==
  /\ backend \in {"database", "mock"}
  /\ month = 1
  /\ clock = 1
  /\ usageRecords = NoRows
  /\ emailNotifications = EmptyBag
  /\ call = [p \in Procs |-> IdleCall]
  /\ answer = NoAnswer
  /\ req = [p \in Procs |-> IdleReq]
  /\ documents = NoRows
  /\ started = 0
  /\ recorded = [k \in Keys |-> 0]
  /\ emitted = EmptyBag
  /\ isInitialized = FALSE

\* ------------------------------------------------------------ time passes
MonthRollover ==
  /\ month < MaxMonth
  /\ month' = month + 1
  /\ answer' = NoAnswer
  /\ UNCHANGED <<isInitialized, backend, clock, usageRecords, emailNotifications, call, started, recorded, emitted,
                 req, documents>>

\* Date.now() advances; only the in-memory store reads it
ClockTick ==
  /\ backend = "mock"
  /\ clock < MaxClock
  /\ clock' = clock + 1
  /\ answer' = NoAnswer
  /\ UNCHANGED <<isInitialized, backend, month, usageRecords, emailNotifications, call, started, recorded, emitted,
                 req, documents>>

\* ----------------------------------------------------------- recordUsage
\* the promise of recordUsage resolves: an upload handler goes on from it, any
\* other caller keeps nothing of it
Resolved(p) ==
  IF req[p].pc = "idle" THEN IdleCall ELSE [call[p] EXCEPT !.pc = "done"]

\* const existing = await db.select()...limit(1)
RecordUsageSelect(p) ==
  /\ backend = "database"
  /\ call[p].op = "recordUsage" /\ call[p].pc = "select"
  /\ LET c == call[p]
         found == RowsOf(usageRecords, c.userId, c.recordType, c.recordMonth)
     IN \E id \in IF found = {} THEN {NoRow} ELSE found :
          call' = [call EXCEPT ![p].existing = id, ![p].pc = "write"]
  /\ answer' = NoAnswer
  /\ UNCHANGED <<isInitialized, backend, month, clock, usageRecords, emailNotifications, started, recorded, emitted,
                 req, documents>>

\* existing.length > 0 ? update set count = count + (usage.count || 1) : insert
RecordUsageWrite(p) ==
  /\ backend = "database"
  /\ call[p].op = "recordUsage" /\ call[p].pc = "write"
  /\ LET c == call[p]
         key == <<c.userId, c.recordType, c.recordMonth>>
         id == <<"usage", c.userId, c.recordType, c.recordMonth,
                 Cardinality(RowsOf(usageRecords, c.userId, c.recordType,
                                    c.recordMonth)) + 1>>
     IN /\ IF c.existing # NoRow
           THEN usageRecords' =
                  [usageRecords EXCEPT ![c.existing].count = IncrementedCount(@, c.count)]
           ELSE usageRecords' = usageRecords @@
                  (id :> [userId |-> c.userId, recordType |-> c.recordType,
                          recordMonth |-> c.recordMonth, count |-> c.count])
        /\ call' = [call EXCEPT ![p] = Resolved(p)]
  /\ answer' = NoAnswer
  /\ UNCHANGED <<isInitialized, backend, month, clock, emailNotifications, started, recorded, emitted,
                 req, documents>>

\* MockStorage.recordUsage: this.usageRecords.set(`usage_${Date.now()}`, newUsage)
MockRecordUsage(p) ==
  /\ backend = "mock"
  /\ call[p].op = "recordUsage" /\ call[p].pc = "select"
  /\ LET c == call[p]
         key == <<c.userId, c.recordType, c.recordMonth>>
     IN /\ usageRecords' =
             (<<"usage", clock>> :> [userId |-> c.userId, recordType |-> c.recordType,
                        recordMonth |-> c.recordMonth, count |-> c.count])
             @@ usageRecords
        /\ call' = [call EXCEPT ![p] = Resolved(p)]
  /\ answer' = NoAnswer
  /\ UNCHANGED <<isInitialized, backend, month, clock, emailNotifications, started, recorded, emitted,
                 req, documents>>

\* ------------------------------------------ checkUsageLimits / canPerformAction
\* a gate that charges the usage it allows: check and record in one call
CheckUsageLimitsCharging(userId, recordType) ==
  LET result == IF backend = "database"
                THEN checkUsageLimits(usageRecords, userId, recordType, month)
                ELSE MockCheckUsageLimits(usageRecords, userId, recordType, month)
  IN /\ answer' = [op |-> "checkUsageLimits", userId |-> userId,
                   recordType |-> recordType, actionType |-> NoKind, month |-> month,
                   result |-> result]
     /\ usageRecords' =
          IF result.allowed
          THEN (<<"usage", "gate", Cardinality(DOMAIN usageRecords)>> :>
                  [userId |-> userId, recordType |-> recordType,
                   recordMonth |-> month, count |-> 1]) @@ usageRecords
          ELSE usageRecords
     /\ UNCHANGED <<isInitialized, backend, month, clock, emailNotifications, call,
                    started, recorded, emitted, req, documents>>

\* one call of storage.checkUsageLimits(userId, recordType); its reads see one
\* state of usage_records, its answer is kept in answer
CheckUsageLimits(userId, recordType) ==
  /\ answer' = [op |-> "checkUsageLimits", userId |-> userId,
                recordType |-> recordType, actionType |-> NoKind, month |-> month,
                result |-> IF backend = "database"
                           THEN checkUsageLimits(usageRecords, userId, recordType, month)
                           ELSE MockCheckUsageLimits(usageRecords, userId, recordType,
                                                     month)]
  /\ UNCHANGED <<isInitialized, backend, month, clock, usageRecords, emailNotifications, call,
                 started, recorded, emitted,
                 req, documents>>

\* one call of storage.canPerformAction(userId, actionType)
CanPerformAction(userId, actionType) ==
  /\ answer' = [op |-> "canPerformAction", userId |-> userId,
                recordType |-> NoKind, actionType |-> actionType, month |-> month,
                result |-> IF backend = "database"
                           THEN canPerformAction(usageRecords, userId, actionType, month)
                           ELSE MockCanPerformAction(usageRecords, userId, actionType,
                                                     month)]
  /\ UNCHANGED <<isInitialized, backend, month, clock, usageRecords, emailNotifications, call,
                 started, recorded, emitted,
                 req, documents>>

\* ------------------------------------------------ getUsageThresholdAlerts
\* the index of the first threshold from position i on that the percentage has
\* reached, Len(thresholds) + 1 when there is none
RECURSIVE ScanFrom(_, _)
ScanFrom(percentage, i) ==
  IF i > Len(thresholds) THEN Len(thresholds) + 1
  ELSE IF percentage >= thresholds[i] THEN i
  ELSE ScanFrom(percentage, i + 1)

\* where the call goes after the usageData entry idx is dealt with: the next
\* entry whose scan reaches a threshold, at that threshold
AfterEntry(c, idx) ==
  LET plan == subscriptionPlans[c.plan]
      next == NextIdx(c.usage, plan, idx + 1)
  IN [c EXCEPT !.idx = next,
               !.tidx = IF next > 3 THEN 0
                        ELSE LET data == usageData(c.usage, plan)[next]
                             IN ScanFrom(Percentage(data.current, data.limit), 1),
               !.pc = IF next > 3 THEN "done" ELSE "hasBeenAlerted"]

\* the scan goes on with the thresholds above the one just dealt with
AfterThresholdContinue(c) ==
  LET data == usageData(c.usage, subscriptionPlans[c.plan])[c.idx]
      next == ScanFrom(Percentage(data.current, data.limit), c.tidx + 1)
  IN IF next > Len(thresholds) THEN AfterEntry(c, c.idx)
     ELSE [c EXCEPT !.tidx = next, !.pc = "hasBeenAlerted"]

\* break: the scan of the entry ends at the first threshold reached
AfterThreshold(c) == AfterEntry(c, c.idx)

\* currentMonth, getUsageForMonth, getUserSubscriptionPlan; if (!plan) return []
GetUsageThresholdAlertsRead(p) ==
  /\ backend = "database"
  /\ call[p].op = "getUsageThresholdAlerts" /\ call[p].pc = "read"
  /\ LET c == call[p]
         plan == getUserSubscriptionPlan(c.userId)
         read == [c EXCEPT !.usage = getUsageForMonth(usageRecords, c.userId, month),
                           !.recordMonth = month, !.plan = plan]
     IN call' = [call EXCEPT ![p] =
                   IF plan = NoPlan THEN [read EXCEPT !.pc = "done"]
                   ELSE AfterEntry(read, 0)]
  /\ answer' = NoAnswer
  /\ UNCHANGED <<isInitialized, backend, month, clock, usageRecords, emailNotifications, started, recorded, emitted,
                 req, documents>>

\* const hasBeenAlerted = await this.hasBeenAlertedForThreshold(...);
\* if (!hasBeenAlerted) alerts.push({...}); break
HasBeenAlerted(p) ==
  /\ call[p].op = "getUsageThresholdAlerts" /\ call[p].pc = "hasBeenAlerted"
  /\ LET c == call[p]
         data == usageData(c.usage, subscriptionPlans[c.plan])[c.idx]
         threshold == thresholds[c.tidx]
     IN IF hasBeenAlertedForThreshold(emailNotifications, c.userId, data.type,
                                      threshold, c.recordMonth)
        THEN /\ call' = [call EXCEPT ![p] = AfterThreshold(c)]
             /\ UNCHANGED emitted
        ELSE /\ call' = [call EXCEPT
                  ![p].alerts = Append(@, [recordType |-> data.type,
                                           percentage |-> threshold,
                                           current |-> data.current,
                                           limit |-> data.limit]),
                  ![p].pc = "recordThresholdAlert"]
             /\ emitted' = emitted (+) SetToBag({[userId |-> c.userId,
                                 recordType |-> data.type, threshold |-> threshold,
                                 month |-> c.recordMonth]})
  /\ answer' = NoAnswer
  /\ UNCHANGED <<isInitialized, backend, month, clock, usageRecords, emailNotifications, started, recorded,
                 req, documents>>

\* await this.recordThresholdAlert(userId, data.type, threshold, currentMonth)
RecordThresholdAlert(p) ==
  /\ call[p].op = "getUsageThresholdAlerts" /\ call[p].pc = "recordThresholdAlert"
  /\ LET c == call[p]
         data == usageData(c.usage, subscriptionPlans[c.plan])[c.idx]
         threshold == thresholds[c.tidx]
     IN /\ emailNotifications' = emailNotifications (+)
             SetToBag({ThresholdAlertRow(c.userId, data.type, threshold,
                                         c.recordMonth, month)})
        /\ call' = [call EXCEPT ![p] = AfterThreshold(c)]
  /\ answer' = NoAnswer
  /\ UNCHANGED <<isInitialized, backend, month, clock, usageRecords, started, recorded, emitted,
                 req, documents>>

\* ------------------------------------------------- callers of the storage
\* the frame of a call storage.recordUsage({userId, recordType, recordMonth, count})
RecordUsageCall(userId, recordType, recordMonth, count) ==
  [IdleCall EXCEPT !.op = "recordUsage", !.pc = "select", !.userId = userId,
                   !.recordType = recordType, !.count = count,
                   !.recordMonth = recordMonth]

\* the frame of a call storage.getUsageThresholdAlerts(userId)
AlertsCall(userId) ==
  [IdleCall EXCEPT !.op = "getUsageThresholdAlerts", !.pc = "read", !.userId = userId]

\* callers are interchangeable: a new call takes the first idle slot
FirstIdle(p) ==
  /\ call[p].pc = "idle" /\ req[p].pc = "idle"
  /\ \A q \in Procs : q < p => ~(call[q].pc = "idle" /\ req[q].pc = "idle")

\* storage.recordUsage({ userId, recordType, recordMonth: currentMonth, count })
StartRecordUsageOf(p, userIds, budget) ==
  /\ FirstIdle(p)
  /\ started < budget
  /\ started' = started + 1
  /\ \E userId \in userIds, recordType \in Kinds, count \in Amounts :
       /\ call' = [call EXCEPT ![p] = RecordUsageCall(userId, recordType, month, count)]
       /\ recorded' = [recorded EXCEPT ![<<userId, recordType, month>>] = @ + count]
  /\ answer' = NoAnswer
  /\ UNCHANGED <<isInitialized, backend, month, clock, usageRecords, emailNotifications, emitted,
                 req, documents>>

\* the ledger calls of two tenants
StartRecordUsage(p) == StartRecordUsageOf(p, LedgerUsers, MaxCalls)

\* the ledger calls of any tenant, one after the other, before the gate is asked
GateStartRecordUsage(p) == StartRecordUsageOf(p, GateUsers, MaxGateCalls)

\* the ledger calls of the tenant whose alerts are followed
AlertsStartRecordUsage(p) == StartRecordUsageOf(p, {"u1"}, MaxAlertCalls)

\* storage.getUsageThresholdAlerts(userId)
StartGetUsageThresholdAlerts(p) ==
  /\ FirstIdle(p)
  /\ started < MaxAlertCalls
  /\ started' = started + 1
  /\ \E userId \in AlertUsers :
       call' = [call EXCEPT ![p] = AlertsCall(userId)]
  /\ answer' = NoAnswer
  /\ UNCHANGED <<isInitialized, backend, month, clock, usageRecords, emailNotifications, recorded, emitted,
                 req, documents>>

\* the method's promise resolves and the caller moves on
Return(p) ==
  /\ call[p].pc = "done"
  /\ call' = [call EXCEPT ![p] = IdleCall]
  /\ answer' = NoAnswer
  /\ UNCHANGED <<isInitialized, backend, month, clock, usageRecords, emailNotifications, started, recorded, emitted,
                 req, documents>>

RecordUsageStep(p) ==
  \/ RecordUsageSelect(p)
  \/ RecordUsageWrite(p)
  \/ MockRecordUsage(p)

AlertsStep(p) ==
  \/ GetUsageThresholdAlertsRead(p)
  \/ HasBeenAlerted(p)
  \/ RecordThresholdAlert(p)

\* the usage ledger under concurrent callers, on either store
Next ==
  \/ MonthRollover
  \/ ClockTick
  \/ \E p \in Procs : StartRecordUsage(p)
  \/ \E p \in Procs : RecordUsageStep(p)

Spec == Init /\ [][Next]_vars

\* the quota gate over the ledger one caller fills, on either store
NextGate ==
  \/ MonthRollover
  \/ ClockTick
  \/ GateStartRecordUsage(1)
  \/ RecordUsageStep(1)
  \/ \E userId \in UserIds, recordType \in Kinds : CheckUsageLimits(userId, recordType)
  \/ \E userId \in UserIds, actionType \in ActionTypes :
       CanPerformAction(userId, actionType)

SpecGate == Init /\ [][NextGate]_vars

\* the usage ledger and the threshold alert tracker of the database store
InitDatabase == Init /\ backend = "database"

NextAlerts ==
  \/ MonthRollover
  \/ \E p \in Procs : AlertsStartRecordUsage(p)
  \/ \E p \in Procs : StartGetUsageThresholdAlerts(p)
  \/ \E p \in Procs : RecordUsageSelect(p)
  \/ \E p \in Procs : RecordUsageWrite(p)
  \/ \E p \in Procs : AlertsStep(p)
  \/ \E p \in Procs : Return(p)

SpecAlerts == InitDatabase /\ [][NextAlerts]_vars

\* the alert tracker with one caller: each call returns before the next starts
NextAlertsSeq ==
  \/ MonthRollover
  \/ AlertsStartRecordUsage(1)
  \/ StartGetUsageThresholdAlerts(1)
  \/ RecordUsageSelect(1)
  \/ RecordUsageWrite(1)
  \/ AlertsStep(1)
  \/ Return(1)

SpecAlertsSeq == InitDatabase /\ [][NextAlertsSeq]_vars

\* ------------------------------------------ POST /api/documents/upload
ActionOf(stage) ==
  CASE stage = "document" -> "upload_document"
    [] stage = "ai_request" -> "ai_request"
    [] stage = "envelope" -> "create_envelope"

DeniedCode(stage) ==
  CASE stage = "document" -> "USAGE_LIMIT_EXCEEDED"
    [] stage = "ai_request" -> "AI_LIMIT_EXCEEDED"
    [] stage = "envelope" -> "ENVELOPE_LIMIT_EXCEEDED"

\* canPerformAction of the store in use
Gate(userId, actionType) ==
  IF backend = "database"
  THEN canPerformAction(usageRecords, userId, actionType, month)
  ELSE MockCanPerformAction(usageRecords, userId, actionType, month)

Respond(r, status, code, message) ==
  [r EXCEPT !.pc = "responded", !.status = status, !.code = code,
            !.message = message]

SetStatus(docs, id, status) == [docs EXCEPT ![id].status = status]

\* the request arrives; if (!file) return res.status(400)
StartUploadOf(p, userIds, withRecipients, budget) ==
  /\ FirstIdle(p)
  /\ started < budget
  /\ started' = started + 1
  /\ \E userId \in userIds, file \in BOOLEAN, recipientsData \in withRecipients :
       req' = [req EXCEPT ![p] =
         IF file
         THEN [IdleReq EXCEPT !.pc = "check", !.userId = userId,
                              !.stage = "document",
                              !.recipientsData = recipientsData]
         ELSE Respond([IdleReq EXCEPT !.userId = userId], 400, "",
                      <<"No file uploaded">>)]
  /\ answer' = NoAnswer
  /\ UNCHANGED <<isInitialized, backend, month, clock, usageRecords, emailNotifications, call,
                 documents, recorded, emitted>>

\* requests of any tenant, one after the other
StartUpload(p) == StartUploadOf(p, UserIds, BOOLEAN, MaxRequests)

\* requests of one tenant without recipients, in flight together: they end with
\* the AI step
StartUploadRace(p) == StartUploadOf(p, {"u2"}, {FALSE}, MaxRaceRequests)

\* a handler that counts the request against the quota although it was denied
UploadCheckCharging(p) ==
  /\ req[p].pc = "check"
  /\ LET r == req[p]
         can == Gate(r.userId, ActionOf(r.stage))
     IN /\ answer' = [op |-> "canPerformAction", userId |-> r.userId,
                      recordType |-> NoKind, actionType |-> ActionOf(r.stage),
                      month |-> month, result |-> can]
        /\ IF can.allowed
           THEN /\ req' = [req EXCEPT ![p].pc =
                             IF r.stage = "document" THEN "record" ELSE "perform",
                                       ![p].log = Append(@, <<"check", r.stage>>)]
                /\ UNCHANGED <<documents, recorded>>
           ELSE /\ req' = [req EXCEPT ![p] =
                             Respond([r EXCEPT !.log = Append(@, <<"check", r.stage>>)],
                                     403, DeniedCode(r.stage), can.message)]
                /\ documents' = IF r.stage = "document" THEN documents
                                ELSE SetStatus(documents, r.documentId, "failed")
                /\ recorded' = [recorded EXCEPT
                                  ![<<r.userId, r.stage, month>>] = @ + 1]
  /\ UNCHANGED <<isInitialized, backend, month, clock, usageRecords, emailNotifications, call,
                 started, emitted>>

\* a handler that answers 403 and leaves the document as it was
UploadCheckKeepsStatus(p) ==
  /\ req[p].pc = "check"
  /\ LET r == req[p]
         can == Gate(r.userId, ActionOf(r.stage))
     IN /\ answer' = [op |-> "canPerformAction", userId |-> r.userId,
                      recordType |-> NoKind, actionType |-> ActionOf(r.stage),
                      month |-> month, result |-> can]
        /\ req' = [req EXCEPT ![p] =
                     IF can.allowed
                     THEN [r EXCEPT !.pc = IF r.stage = "document" THEN "record"
                                           ELSE "perform",
                                    !.log = Append(@, <<"check", r.stage>>)]
                     ELSE Respond([r EXCEPT !.log = Append(@, <<"check", r.stage>>)],
                                  403, DeniedCode(r.stage), can.message)]
  /\ UNCHANGED <<isInitialized, backend, month, clock, usageRecords, emailNotifications, call,
                 documents, started, recorded, emitted>>

\* await storage.canPerformAction(userId, ...); if (!allowed) [mark the document
\* failed and] return res.status(403)
UploadCheck(p) ==
  /\ req[p].pc = "check"
  /\ LET r == req[p]
         can == Gate(r.userId, ActionOf(r.stage))
     IN /\ answer' = [op |-> "canPerformAction", userId |-> r.userId,
                      recordType |-> NoKind, actionType |-> ActionOf(r.stage),
                      month |-> month, result |-> can]
        /\ IF can.allowed
           THEN /\ req' = [req EXCEPT ![p].pc =
                             IF r.stage = "document" THEN "record" ELSE "perform",
                                       ![p].log = Append(@, <<"check", r.stage>>)]
                /\ UNCHANGED documents
           ELSE /\ req' = [req EXCEPT ![p] =
                             Respond([r EXCEPT !.log = Append(@, <<"check", r.stage>>)],
                                     403, DeniedCode(r.stage), can.message)]
                /\ documents' = IF r.stage = "document" THEN documents
                                ELSE SetStatus(documents, r.documentId, "failed")
  /\ UNCHANGED <<isInitialized, backend, month, clock, usageRecords, emailNotifications, call,
                 started, recorded, emitted>>

\* const currentMonth = new Date().toISOString().slice(0, 7);
\* await storage.recordUsage({userId, recordType: 'document', recordMonth: currentMonth,
\* count: 1}): currentMonth is computed here, once for the whole request
UploadRecordUsage(p) ==
  /\ req[p].pc = "record"
  /\ LET r == req[p]
     IN /\ req' = [req EXCEPT ![p].pc = "recording", ![p].currentMonth = month,
                               ![p].log = Append(@, <<"record", r.stage>>)]
        /\ call' = [call EXCEPT ![p] = RecordUsageCall(r.userId, r.stage, month, 1)]
        /\ recorded' = [recorded EXCEPT ![<<r.userId, r.stage, month>>] = @ + 1]
  /\ answer' = NoAnswer
  /\ UNCHANGED <<isInitialized, backend, month, clock, usageRecords, emailNotifications, documents,
                 started, emitted>>

\* await checkAndSendUsageAlerts(userId): storage.getUsageThresholdAlerts(userId) and
\* the mails. Within a request the evaluation is taken in one step: it writes
\* email_notifications only, which no other step of the handler reads
UploadCheckAlerts(p) ==
  /\ req[p].pc = "recording" /\ call[p].pc = "done"
  /\ LET r == req[p]
         alerts == IF backend = "database"
                   THEN getUsageThresholdAlerts(usageRecords, emailNotifications,
                                                r.userId, month)
                   ELSE {}
     IN /\ emailNotifications' = emailNotifications (+)
             SetToBag({ThresholdAlertRow(r.userId, a.recordType, a.percentage,
                                         month, month) : a \in alerts})
        /\ emitted' = emitted (+)
             SetToBag({[userId |-> r.userId, recordType |-> a.recordType,
                        threshold |-> a.percentage, month |-> month] : a \in alerts})
        /\ req' = [req EXCEPT ![p].pc = IF r.stage = "document" THEN "save"
                                        ELSE "update",
                               ![p].log = Append(@, <<"alerts", r.stage>>)]
  /\ call' = [call EXCEPT ![p] = IdleCall]
  /\ answer' = NoAnswer
  /\ UNCHANGED <<isInitialized, backend, month, clock, usageRecords, documents, started, recorded>>

\* saveUploadedFile, storage.createDocument({..., status: 'processing'}); a throw
\* reaches the outer catch: res.status(500)
UploadSave(p) ==
  /\ req[p].pc = "save"
  /\ LET r == req[p]
         id == <<"doc", Cardinality(DOMAIN documents) + 1>>
     IN \/ /\ documents' = documents @@
                  (id :> [userId |-> r.userId, status |-> "processing"])
           /\ req' = [req EXCEPT ![p].pc = "check", ![p].stage = "ai_request",
                                 ![p].documentId = id,
                                 ![p].log = Append(@, <<"perform", "document">>)]
        \/ /\ req' = [req EXCEPT ![p] =
                        Respond(r, 500, "", <<"Failed to upload document">>)]
           /\ UNCHANGED documents
  /\ answer' = NoAnswer
  /\ UNCHANGED <<isInitialized, backend, month, clock, usageRecords, emailNotifications, call,
                 started, recorded, emitted>>

\* a handler that gives the document usage back when the parse or the envelope fails
UploadPerformRollback(p) ==
  /\ req[p].pc = "perform"
  /\ LET r == req[p]
     IN \/ /\ req' = [req EXCEPT ![p].pc = "recording",
                                 ![p].log = @ \o << <<"perform", r.stage>>,
                                                    <<"record", r.stage>> >>]
           /\ call' = [call EXCEPT ![p] =
                         RecordUsageCall(r.userId, r.stage, r.currentMonth, 1)]
           /\ recorded' = [recorded EXCEPT
                             ![<<r.userId, r.stage, r.currentMonth>>] = @ + 1]
           /\ UNCHANGED <<documents, usageRecords>>
        \/ /\ documents' = SetStatus(documents, r.documentId, "failed")
           /\ req' = [req EXCEPT ![p] = Respond(r, 200, "", NoMessage)]
           /\ usageRecords' =
                [id \in DOMAIN usageRecords |->
                   IF id \in RowsOf(usageRecords, r.userId, "document", r.currentMonth)
                   THEN [usageRecords[id] EXCEPT !.count = @ - 1]
                   ELSE usageRecords[id]]
           /\ UNCHANGED <<call, recorded>>
  /\ answer' = NoAnswer
  /\ UNCHANGED <<isInitialized, backend, month, clock, emailNotifications, started, emitted>>

\* a handler that lets the rejection of the parse or of the envelope through to
\* the outer catch
UploadPerformRethrows(p) ==
  /\ req[p].pc = "perform"
  /\ LET r == req[p]
     IN \/ /\ req' = [req EXCEPT ![p].pc = "recording",
                                 ![p].log = @ \o << <<"perform", r.stage>>,
                                                    <<"record", r.stage>> >>]
           /\ call' = [call EXCEPT ![p] =
                         RecordUsageCall(r.userId, r.stage, r.currentMonth, 1)]
           /\ recorded' = [recorded EXCEPT
                             ![<<r.userId, r.stage, r.currentMonth>>] = @ + 1]
           /\ UNCHANGED documents
        \/ /\ req' = [req EXCEPT ![p] =
                        Respond(r, 500, "", <<"Failed to upload document">>)]
           /\ UNCHANGED <<documents, call, recorded>>
  /\ answer' = NoAnswer
  /\ UNCHANGED <<isInitialized, backend, month, clock, usageRecords, emailNotifications,
                 started, emitted>>

\* parseRealEstateDocument / docusignService.createEnvelope settles; a rejection is
\* caught: the document is marked failed and the handler answers 200
UploadPerform(p) ==
  /\ req[p].pc = "perform"
  /\ LET r == req[p]
     IN \/ /\ req' = [req EXCEPT ![p].pc = "recording",
                                 ![p].log = @ \o << <<"perform", r.stage>>,
                                                    <<"record", r.stage>> >>]
           /\ call' = [call EXCEPT ![p] =
                         RecordUsageCall(r.userId, r.stage, r.currentMonth, 1)]
           /\ recorded' = [recorded EXCEPT
                             ![<<r.userId, r.stage, r.currentMonth>>] = @ + 1]
           /\ UNCHANGED documents
        \/ /\ documents' = SetStatus(documents, r.documentId, "failed")
           /\ req' = [req EXCEPT ![p] = Respond(r, 200, "", NoMessage)]
           /\ UNCHANGED <<call, recorded>>
  /\ answer' = NoAnswer
  /\ UNCHANGED <<isInitialized, backend, month, clock, usageRecords, emailNotifications,
                 started, emitted>>

\* storage.updateDocument(document.id, {..., status: 'pending'}); then the recipients
\* and the envelope, or the response
UploadUpdate(p) ==
  /\ req[p].pc = "update"
  /\ LET r == req[p]
     IN /\ documents' = SetStatus(documents, r.documentId, "pending")
        /\ req' = [req EXCEPT ![p] =
                     IF r.stage = "ai_request" /\ r.recipientsData
                     THEN [r EXCEPT !.pc = "check", !.stage = "envelope"]
                     ELSE Respond(r, 200, "", NoMessage)]
  /\ answer' = NoAnswer
  /\ UNCHANGED <<isInitialized, backend, month, clock, usageRecords, emailNotifications, call,
                 started, recorded, emitted>>

\* the response is out; the slot is free for the next request
Finish(p) ==
  /\ req[p].pc = "responded"
  /\ req' = [req EXCEPT ![p] = IdleReq]
  /\ answer' = NoAnswer
  /\ UNCHANGED <<isInitialized, backend, month, clock, usageRecords, emailNotifications, call,
                 documents, started, recorded, emitted>>

UploadStep(p) ==
  \/ UploadCheck(p)
  \/ UploadRecordUsage(p)
  \/ UploadCheckAlerts(p)
  \/ UploadSave(p)
  \/ UploadPerform(p)
  \/ UploadUpdate(p)
  \/ Finish(p)

StorageStep(p) ==
  \/ RecordUsageSelect(p)
  \/ RecordUsageWrite(p)

\* concurrent upload requests of a tenant whose AI limit is 1
NextUploadRace ==
  \/ MonthRollover
  \/ \E p \in Procs : StartUploadRace(p)
  \/ \E p \in Procs : UploadStep(p)
  \/ \E p \in Procs : StorageStep(p)

SpecUploadRace == InitDatabase /\ [][NextUploadRace]_vars

\* upload requests handled one after the other
NextUploadSeq ==
  \/ MonthRollover
  \/ StartUpload(1)
  \/ UploadStep(1)
  \/ StorageStep(1)

SpecUploadSeq == InitDatabase /\ [][NextUploadSeq]_vars

\* ================================================================ claims
\* a recordUsage call for the key has started and not yet finished
InFlight(k) ==
  \E p \in Procs : /\ call[p].op = "recordUsage"
                   /\ call[p].pc \in {"select", "write"}
                   /\ <<call[p].userId, call[p].recordType, call[p].recordMonth>> = k

\* what getUsageForMonth answers for the key
Total(k) == SumCounts(usageRecords, RowsOf(usageRecords, k[1], k[2], k[3]))

\* C1: with the database store, whenever no recordUsage call for a key is in
\* flight, getUsageForMonth returns for that key the sum of the counts handed to
\* all recordUsage calls for it, however the calls were interleaved.
C1_NoLostUpdate ==
  backend = "database" =>
    \A k \in Keys : ~InFlight(k) => Total(k) = recorded[k]

\* two calls raced on the first use of a key (two rows), both have finished
C1_Witness ==
  /\ backend = "database"
  /\ \E k \in Keys : /\ ~InFlight(k)
                     /\ Cardinality(RowsOf(usageRecords, k[1], k[2], k[3])) = 2
                     /\ recorded[k] >= 2
                     /\ Total(k) = recorded[k]

\* C2: there is at most one usage row per (tenant, kind, period), also when
\* recordUsage calls for the key run concurrently on its first use.
C2_AtMostOneRow ==
  \A k \in Keys : Cardinality(RowsOf(usageRecords, k[1], k[2], k[3])) <= 1

\* the tenant's plan reference is missing or resolves to no plan
NoPlanAssigned(userId) ==
  \/ users[userId].subscriptionPlan = NoPlan
  \/ users[userId].subscriptionPlan \notin DOMAIN subscriptionPlans

\* the limit of the tenant's plan for a kind, read off the plan row
PlanLimit(userId, recordType) ==
  LET plan == subscriptionPlans[users[userId].subscriptionPlan]
  IN IF recordType = "document" THEN plan.documentsLimit
     ELSE IF recordType = "envelope" THEN plan.envelopesLimit
     ELSE plan.aiRequestsLimit

\* C3: for a tenant with a resolvable plan, checkUsageLimits of the database store
\* answers allowed = FALSE exactly when current >= limit; current is the usage
\* recorded for the kind in the current period and limit the plan's limit for it.
C3_DeniedIffAtLimit ==
  (/\ backend = "database"
   /\ answer.op = "checkUsageLimits"
   /\ ~NoPlanAssigned(answer.userId)) =>
     LET k == <<answer.userId, answer.recordType, answer.month>>
         r == answer.result
     IN /\ (r.allowed = FALSE) <=> (r.current >= r.limit)
        /\ ~InFlight(k) => r.current = recorded[k]
        /\ r.limit = PlanLimit(answer.userId, answer.recordType)

\* the gate denies at current = limit > 0
C3_Witness ==
  /\ backend = "database"
  /\ answer.op = "checkUsageLimits"
  /\ ~NoPlanAssigned(answer.userId)
  /\ answer.result.allowed = FALSE
  /\ answer.result.limit > 0
  /\ answer.result.current = answer.result.limit
  /\ answer.result.current = recorded[<<answer.userId, answer.recordType, answer.month>>]

\* the answer denies with the no-plan message, which is no quota message
DeniedForNoPlan ==
  /\ answer.result.allowed = FALSE
  /\ answer.result.message = NoPlanMessage
  /\ \A recordType \in Kinds, limit \in 0..1 :
       answer.result.message # LimitMessage(recordType, limit)

HasPlan(userId) == ~NoPlanAssigned(userId)

\* C4: requests handled one after the other never record more than the plan's
\* limit L of a kind in a period: the first L actions are allowed, later ones denied.
C4_ExactlyLimitActions ==
  \A k \in Keys : HasPlan(k[1]) => Total(k) <= PlanLimit(k[1], k[2])

\* C6: with at most MaxInFlight requests of a tenant in flight, the usage recorded
\* for a kind in a period never exceeds limit + MaxInFlight.
C6_BoundedOvershoot ==
  \A k \in Keys : HasPlan(k[1]) => Total(k) <= PlanLimit(k[1], k[2]) + MaxInFlight

\* the alert of a kind at a threshold, as a call of the period m returns it
Alert(userId, recordType, threshold, m) ==
  [userId |-> userId, recordType |-> recordType, threshold |-> threshold, month |-> m]

Thresholds == {thresholds[i] : i \in 1..Len(thresholds)}

\* the rows of email_notifications for the alert that were inserted in period m
RecordsIn(userId, recordType, threshold, m) ==
  CopiesIn(ThresholdAlertRow(userId, recordType, threshold, m, m), emailNotifications)

\* C7: however concurrent getUsageThresholdAlerts calls interleave, at most one
\* alert is returned and at most one row is inserted for a (tenant, kind, threshold)
\* in a period.
C7_AtMostOneAlert ==
  \A userId \in AlertUsers, recordType \in AlertTypes, threshold \in Thresholds,
     m \in Months :
       /\ CopiesIn(Alert(userId, recordType, threshold, m), emitted) <= 1
       /\ RecordsIn(userId, recordType, threshold, m) <= 1

\* a getUsageThresholdAlerts call of a tenant with a plan is about to return
Finished(p) ==
  /\ call[p].op = "getUsageThresholdAlerts"
  /\ call[p].pc = "done"
  /\ call[p].plan # NoPlan

\* the usageData entry i of the call, and its percentage
Entry(p, i) == usageData(call[p].usage, subscriptionPlans[call[p].plan])[i]

Pct(p, i) == Percentage(Entry(p, i).current, Entry(p, i).limit)

\* the call returns an alert of the kind at a threshold below the given one
ReturnedBelow(p, recordType, threshold) ==
  \E j \in 1..Len(call[p].alerts) :
     /\ call[p].alerts[j].recordType = recordType
     /\ call[p].alerts[j].percentage < threshold

\* C8: when a call returns, every threshold the percentage of a kind has reached
\* is on record, or the call returns the alert of a lower threshold of that kind:
\* the call emitted and recorded the first reached threshold that had no record.
C8_FirstUnrecordedThreshold ==
  \A p \in Procs : Finished(p) =>
    \A i \in 1..3, threshold \in Thresholds :
       (Entry(p, i).limit > 0 /\ Pct(p, i) >= threshold) =>
          \/ hasBeenAlertedForThreshold(emailNotifications, call[p].userId,
                                        Entry(p, i).type, threshold,
                                        call[p].recordMonth)
          \/ ReturnedBelow(p, Entry(p, i).type, threshold)

\* the usage kind an alert type stands for
KindOfAlert(recordType) ==
  CASE recordType = "documents" -> "document"
    [] recordType = "envelopes" -> "envelope"
    [] recordType = "ai_requests" -> "ai_request"

\* C9: over calls made one after the other, the 80% alert of a kind is emitted
\* for a period exactly once by the time a call that saw 80% or more returns and
\* never a second time, and a 90% alert only when the usage has reached 90%.
C9_EightyOnceNinetyLater ==
  /\ \A userId \in AlertUsers, recordType \in AlertTypes, m \in Months :
        CopiesIn(Alert(userId, recordType, 80, m), emitted) <= 1
  /\ \A e \in BagToSet(emitted) :
        e.threshold >= 90 =>
          Percentage(Total(<<e.userId, KindOfAlert(e.recordType), e.month>>),
                     PlanLimit(e.userId, KindOfAlert(e.recordType))) >= 90
  /\ \A p \in Procs : Finished(p) =>
        \A i \in 1..3 :
           (Entry(p, i).limit > 0 /\ Pct(p, i) >= 80) =>
              CopiesIn(Alert(call[p].userId, Entry(p, i).type, 80,
                             call[p].recordMonth), emitted) = 1

\* C10: a record of an earlier period does not suppress the alert of a later
\* one: a call of period m that saw 80% or more of a kind returns with the 80%
\* alert emitted once for m, also when a record of an earlier period exists.
C10_DedupPerPeriod ==
  \A p \in Procs : Finished(p) =>
    \A i \in 1..3 :
       (/\ Entry(p, i).limit > 0
        /\ Pct(p, i) >= 80
        /\ \E m \in Months :
              /\ m < call[p].recordMonth
              /\ RecordsIn(call[p].userId, Entry(p, i).type, 80, m) > 0) =>
          CopiesIn(Alert(call[p].userId, Entry(p, i).type, 80, call[p].recordMonth),
                   emitted) = 1

\* the number of entries of a kind in the alerts a call has collected
EntriesOf(p, recordType) ==
  Cardinality({j \in 1..Len(call[p].alerts) : call[p].alerts[j].recordType = recordType})

\* C11: the alerts one getUsageThresholdAlerts call collects hold at most one
\* entry per kind, hence at most three entries, whatever the usage it read.
C11_OneAlertPerKind ==
  \A p \in Procs : call[p].op = "getUsageThresholdAlerts" =>
    /\ \A recordType \in AlertTypes : EntriesOf(p, recordType) <= 1
    /\ Len(call[p].alerts) <= 3

\* one recordUsage call took the documents from 0 to 100%, across all three
\* thresholds, and the call that follows returns one documents entry
C11_Witness ==
  \E p \in Procs :
     /\ Finished(p)
     /\ started = 2
     /\ call[p].usage.documents = 2
     /\ Pct(p, 1) = 100
     /\ EntriesOf(p, "documents") = 1

\* the position of the first occurrence of an event in a log, 0 when absent
RECURSIVE PosFrom(_, _, _)
PosFrom(log, event, i) ==
  IF i > Len(log) THEN 0
  ELSE IF log[i] = event THEN i
  ELSE PosFrom(log, event, i + 1)

Pos(log, event) == PosFrom(log, event, 1)

\* in the log the second event, when present, comes after the first
Before(log, first, second) ==
  Pos(log, second) > 0 => (Pos(log, first) > 0 /\ Pos(log, first) < Pos(log, second))

\* C12: in every upload request and for every kind, the action is performed only
\* after the quota check, the usage is recorded only after the action was
\* performed, and the thresholds are evaluated only after the usage was recorded.
C12_SubStepOrder ==
  \A p \in Procs, kind \in Kinds :
     LET log == req[p].log
     IN /\ Before(log, <<"check", kind>>, <<"perform", kind>>)
        /\ Before(log, <<"perform", kind>>, <<"record", kind>>)
        /\ Before(log, <<"record", kind>>, <<"alerts", kind>>)

\* C13: when an upload request has answered, it has recorded usage of a kind if
\* and only if its action of that kind was completed.
C13_RecordedIffCompleted ==
  \A p \in Procs, kind \in Kinds :
     req[p].pc = "responded" =>
       (Pos(req[p].log, <<"record", kind>>) > 0
          <=> Pos(req[p].log, <<"perform", kind>>) > 0)

\* C14: a step in which checkUsageLimits or canPerformAction answers, whatever the
\* answer, leaves usage_records, email_notifications and documents unchanged.
C14_GateIsPure ==
  [][answer'.op \in {"checkUsageLimits", "canPerformAction"} =>
       UNCHANGED <<usageRecords, emailNotifications, documents>>]_vars

\* the gate has allowed an action of a tenant with usage on record, and nothing
\* but the recorded usage is in the ledger
C14_Witness ==
  /\ answer.op \in {"checkUsageLimits", "canPerformAction"}
  /\ answer.result.allowed
  /\ \E k \in Keys : k[1] = answer.userId /\ k[3] = answer.month /\ Total(k) > 0
  /\ \A k \in Keys : InFlight(k) \/ Total(k) = recorded[k]
  /\ backend = "database"

RECURSIVE SumRecorded(_)
SumRecorded(keys) ==
  IF keys = {} THEN 0
  ELSE LET k == CHOOSE x \in keys : TRUE
       IN recorded[k] + SumRecorded(keys \ {k})

\* every recordUsage call started so far was handed the amount 1 (where only
\* recordUsage calls are started)
AllAmountsOne == SumRecorded(Keys) = started

\* C15: on either store, after N finished recordUsage calls of amount 1 for a
\* key, in any order relative to calls for other keys, getUsageForMonth returns N
\* for the key's kind, and 0 for a kind with no recorded usage.
C15_ExactlyN ==
  AllAmountsOne =>
    \A k \in Keys : ~InFlight(k) => Total(k) = recorded[k]

\* C16: no step lowers the usage total of a (tenant, kind, period); the steps of
\* an upload request that fail after usage was recorded leave it recorded.
C16_UsageNeverDecreases ==
  [][\A k \in Keys : Total(k)' >= Total(k)]_vars

\* a request has answered after its AI parse or its envelope creation failed, and
\* the usage it recorded before is still on record
C16_Witness ==
  \E p \in Procs :
     /\ req[p].pc = "responded"
     /\ req[p].documentId # NoRow
     /\ documents[req[p].documentId].status = "failed"
     /\ Pos(req[p].log, <<"record", "ai_request">>) > 0
     /\ Pos(req[p].log, <<"perform", "envelope">>) = 0
     /\ Pos(req[p].log, <<"check", "envelope">>) > 0
     /\ req[p].status = 200
     /\ Total(<<req[p].userId, "ai_request", req[p].currentMonth>>) >= 1
     /\ Total(<<req[p].userId, "document", req[p].currentMonth>>) >= 1

\* ====================================================== signing reminders
MaxTime == 7          \* last half-day the clock reaches in the reminder sweeps
MaxSweeps == 3        \* sweeps started one after the other in one behaviour
MaxRaceTime == 3      \* last half-day the clock reaches while sweeps overlap
MaxRaceSweeps == 2    \* overlapping sweeps started in one behaviour

\* the clock counts half-days: 1000 * 3600 * 24 ms are TicksPerDay ticks
TicksPerDay == 2
DefaultDaysThreshold == 3
RecurringDaysThreshold == 3
CooldownDays == 2

\* const { daysThreshold = 3 } = req.body
DaysThresholds == {1, DefaultDaysThreshold}

\* the documents the sweeps run over, some of them created before the clock
\* starts; d4 is no longer pending
storedDocuments ==
  [d1 |-> [userId |-> "u1", status |-> "pending",   createdAt |-> 0 - 5],
   d2 |-> [userId |-> "u1", status |-> "pending",   createdAt |-> 0 - 4],
   d3 |-> [userId |-> "u2", status |-> "pending",   createdAt |-> 0 - 5],
   d4 |-> [userId |-> "u1", status |-> "completed", createdAt |-> 0 - 5]]

\* document_recipients joined with recipients, per document
documentRecipients ==
  [d1 |-> <<[recipientEmail |-> "a@example.com", status |-> "pending"],
            [recipientEmail |-> "b@example.com", status |-> "signed"]>>,
   d2 |-> <<[recipientEmail |-> "a@example.com", status |-> "pending"]>>,
   d3 |-> <<[recipientEmail |-> "c@example.com", status |-> "pending"]>>,
   d4 |-> <<[recipientEmail |-> "b@example.com", status |-> "pending"]>>]

SweepUsers == {"u1", "u2"}

\* storage.getDocuments(userId): ... orderBy(desc(documents.createdAt))
RECURSIVE NewestFirst(_, _)
NewestFirst(docs, ids) ==
  IF ids = {} THEN <<>>
  ELSE LET d == CHOOSE x \in ids :
                  \A y \in ids : docs[x].createdAt >= docs[y].createdAt
       IN <<d>> \o NewestFirst(docs, ids \ {d})

getDocuments(docs, userId) ==
  NewestFirst(docs, {d \in DOMAIN docs : docs[d].userId = userId})

\* storage.getDocumentRecipients(document.id)
getDocumentRecipients(documentId) == documentRecipients[documentId]

\* Math.floor((currentDate - createdAt) / (1000 * 3600 * 24))
daysWaiting(currentDate, createdAt) == (currentDate - createdAt) \div TicksPerDay

\* the recipients of one document a sweep goes on with: the pending ones, when
\* the document has waited for daysThreshold days
RemindersDue(docs, documentId, currentDate, daysThreshold) ==
  LET pendingRecipients ==
        SelectSeq(getDocumentRecipients(documentId),
                  LAMBDA dr : dr.status = "pending")
  IN IF daysWaiting(currentDate, docs[documentId].createdAt) >= daysThreshold
     THEN [i \in 1..Len(pendingRecipients) |->
             <<documentId, pendingRecipients[i].recipientEmail>>]
     ELSE <<>>

RECURSIVE DueOf(_, _, _, _)
DueOf(docs, ids, currentDate, daysThreshold) ==
  IF ids = <<>> THEN <<>>
  ELSE RemindersDue(docs, Head(ids), currentDate, daysThreshold)
         \o DueOf(docs, Tail(ids), currentDate, daysThreshold)

\* the pairs of the tenant's pending documents the loops reach the reminder
\* query with, in the order of the loops
pendingDocuments(docs, userId) ==
  SelectSeq(getDocuments(docs, userId), LAMBDA d : docs[d].status = "pending")

Due(docs, userId, currentDate, daysThreshold) ==
  DueOf(docs, pendingDocuments(docs, userId), currentDate, daysThreshold)

\* .orderBy(desc(emailNotifications.sentAt)).limit(1)
MostRecent(rows) ==
  IF rows = {} THEN <<>>
  ELSE <<CHOOSE n \in rows : \A m \in rows : n.sentAt >= m.sentAt>>

\* the reminder query of POST /api/reminders/send: by tenant, type, recipient
\* and document
recentReminderOnDemand(rows, userId, recipientEmail, documentId) ==
  MostRecent({n \in BagToSet(rows) :
                /\ n.userId = userId
                /\ n.emailType = "signing_reminder"
                /\ n.recipientEmail = recipientEmail
                /\ n.documentId = documentId})

\* the reminder query of the recurring sweep: by tenant, type and recipient
recentReminderRecurring(rows, userId, recipientEmail) ==
  MostRecent({n \in BagToSet(rows) :
                /\ n.userId = userId
                /\ n.emailType = "signing_reminder"
                /\ n.recipientEmail = recipientEmail})

recentReminder(op, rows, userId, pair) ==
  IF op = "onDemand"
  THEN recentReminderOnDemand(rows, userId, pair[2], pair[1])
  ELSE recentReminderRecurring(rows, userId, pair[2])

shouldSendReminderInclusive(recent, currentDate) ==
  \/ Len(recent) = 0
  \/ currentDate - recent[1].sentAt >= CooldownDays * TicksPerDay

\* recentReminder.length === 0 ||
\*   (sentAt && currentDate.getTime() - sentAt.getTime() > 2 * 24 * 60 * 60 * 1000)
shouldSendReminder(recent, currentDate) ==
  \/ Len(recent) = 0
  \/ currentDate - recent[1].sentAt > CooldownDays * TicksPerDay

\* the row createEmailNotification inserts for a reminder
ReminderRow(userId, pair, sentAt) ==
  [userId |-> userId, emailType |-> "signing_reminder",
   recipientEmail |-> pair[2], status |-> "sent", documentId |-> pair[1],
   sentAt |-> sentAt]

\* a sweep in progress: the tenants still to visit, the pairs of the current
\* tenant still to visit, and the date it captured
SweepFrame(op, pc, tenants, daysThreshold) ==
  [pc |-> pc, op |-> op, tenants |-> tenants, daysThreshold |-> daysThreshold,
   currentDate |-> 0, todo |-> <<>>]

IsSweep(p) == req[p].pc # "idle" /\ req[p].op \in {"onDemand", "recurring"}

\* the loops go on after the given pairs of the current tenant are left
Continue(r, todo) ==
  IF todo # <<>> THEN [r EXCEPT !.todo = todo, !.pc = "recentReminder"]
  ELSE IF Len(r.tenants) > 1
       THEN [r EXCEPT !.todo = <<>>, !.tenants = Tail(@), !.pc = "getDocuments"]
       ELSE [r EXCEPT !.todo = <<>>, !.tenants = <<>>, !.pc = "done"]

InitReminders ==
  /\ backend = "database"
  /\ month = 1
  /\ clock = 1
  /\ usageRecords = NoRows
  /\ emailNotifications = EmptyBag
  /\ call = [p \in Procs |-> IdleCall]
  /\ answer = NoAnswer
  /\ req = [p \in Procs |-> IdleReq]
  /\ documents = storedDocuments
  /\ started = 0
  /\ recorded = [k \in Keys |-> 0]
  /\ emitted = EmptyBag
  /\ isInitialized = FALSE

TimePassesUntil(last) ==
  /\ clock < last
  /\ clock' = clock + 1
  /\ UNCHANGED <<isInitialized, backend, month, usageRecords, emailNotifications, call, answer,
                 req, documents, started, recorded, emitted>>

TimePasses == TimePassesUntil(MaxTime)

TimePassesRace == TimePassesUntil(MaxRaceTime)

\* POST /api/reminders/send arrives
StartOnDemandSweepOf(p, userIds, budget) ==
  /\ FirstIdle(p)
  /\ started < budget
  /\ started' = started + 1
  /\ \E userId \in userIds, daysThreshold \in DaysThresholds :
       req' = [req EXCEPT ![p] =
                 SweepFrame("onDemand", "getDocuments", <<userId>>, daysThreshold)]
  /\ UNCHANGED <<isInitialized, backend, month, clock, usageRecords, emailNotifications, call,
                 answer, documents, recorded, emitted>>

StartOnDemandSweep(p) == StartOnDemandSweepOf(p, SweepUsers, MaxSweeps)

StartOnDemandSweepRace(p) == StartOnDemandSweepOf(p, SweepUsers, MaxRaceSweeps)

\* the setInterval callback fires
StartRecurringSweepOf(p, budget) ==
  /\ FirstIdle(p)
  /\ started < budget
  /\ started' = started + 1
  /\ req' = [req EXCEPT ![p] =
               SweepFrame("recurring", "pendingDocs", <<>>, RecurringDaysThreshold)]
  /\ UNCHANGED <<isInitialized, backend, month, clock, usageRecords, emailNotifications, call,
                 answer, documents, recorded, emitted>>

StartRecurringSweep(p) == StartRecurringSweepOf(p, MaxSweeps)

StartRecurringSweepRace(p) == StartRecurringSweepOf(p, MaxRaceSweeps)

\* select userId from documents where status = 'pending' group by userId; the
\* rows come in the order of the users table here
UserOrder == <<"u1", "u2", "u3", "u4">>

pendingDocs(docs) ==
  SelectSeq(UserOrder, LAMBDA u : \E d \in DOMAIN docs :
                          docs[d].userId = u /\ docs[d].status = "pending")

SweepPendingDocs(p) ==
  /\ IsSweep(p) /\ req[p].pc = "pendingDocs"
  /\ LET tenants == pendingDocs(documents)
     IN req' = [req EXCEPT ![p] =
                  IF tenants = <<>> THEN [@ EXCEPT !.pc = "done"]
                  ELSE [@ EXCEPT !.tenants = tenants, !.pc = "getDocuments"]]
  /\ UNCHANGED <<isInitialized, backend, month, clock, usageRecords, emailNotifications, call,
                 answer, documents, started, recorded, emitted>>

\* await storage.getDocuments(userId); const currentDate = new Date(); the
\* loops over the pending documents and their pending recipients up to the first
\* reminder query
SweepGetDocuments(p) ==
  /\ IsSweep(p) /\ req[p].pc = "getDocuments"
  /\ LET r == req[p]
         todo == Due(documents, Head(r.tenants), clock, r.daysThreshold)
     IN req' = [req EXCEPT ![p] = Continue([r EXCEPT !.currentDate = clock], todo)]
  /\ UNCHANGED <<isInitialized, backend, month, clock, usageRecords, emailNotifications, call,
                 answer, documents, started, recorded, emitted>>

\* const recentReminder = await db.select()...; shouldSendReminder
SweepRecentReminder(p) ==
  /\ IsSweep(p) /\ req[p].pc = "recentReminder"
  /\ LET r == req[p]
         recent == recentReminder(r.op, emailNotifications, Head(r.tenants),
                                  Head(r.todo))
     IN req' = [req EXCEPT ![p] =
                  IF shouldSendReminder(recent, r.currentDate)
                  THEN [r EXCEPT !.pc = IF r.op = "recurring" THEN "getUser"
                                        ELSE "send"]
                  ELSE Continue(r, Tail(r.todo))]
  /\ UNCHANGED <<isInitialized, backend, month, clock, usageRecords, emailNotifications, call,
                 answer, documents, started, recorded, emitted>>

\* const user = await storage.getUser(doc.userId); if (user)
SweepGetUser(p) ==
  /\ IsSweep(p) /\ req[p].pc = "getUser"
  /\ req' = [req EXCEPT ![p] =
               IF Head(req[p].tenants) \in UserIds THEN [@ EXCEPT !.pc = "send"]
               ELSE Continue(@, Tail(@.todo))]
  /\ UNCHANGED <<isInitialized, backend, month, clock, usageRecords, emailNotifications, call,
                 answer, documents, started, recorded, emitted>>

\* const success = await emailService.sendSigningReminderNotification(...)
SweepSend(p) ==
  /\ IsSweep(p) /\ req[p].pc = "send"
  /\ LET r == req[p]
         pair == Head(r.todo)
     IN \/ /\ emitted' = emitted (+)
                  SetToBag({[documentId |-> pair[1], recipientEmail |-> pair[2],
                             at |-> clock]})
           /\ req' = [req EXCEPT ![p].pc = "createEmailNotification"]
        \/ /\ req' = [req EXCEPT ![p] = Continue(r, Tail(r.todo))]
           /\ UNCHANGED emitted
  /\ UNCHANGED <<isInitialized, backend, month, clock, usageRecords, emailNotifications, call,
                 answer, documents, started, recorded>>

\* await storage.createEmailNotification({ ..., sentAt: new Date() })
SweepCreateEmailNotification(p) ==
  /\ IsSweep(p) /\ req[p].pc = "createEmailNotification"
  /\ LET r == req[p]
     IN /\ emailNotifications' = emailNotifications (+)
             SetToBag({ReminderRow(Head(r.tenants), Head(r.todo), clock)})
        /\ req' = [req EXCEPT ![p] = Continue(r, Tail(r.todo))]
  /\ UNCHANGED <<isInitialized, backend, month, clock, usageRecords, call, answer, documents,
                 started, recorded, emitted>>

\* res.json(...) / the callback ends
SweepReturn(p) ==
  /\ IsSweep(p) /\ req[p].pc = "done"
  /\ req' = [req EXCEPT ![p] = IdleReq]
  /\ UNCHANGED <<isInitialized, backend, month, clock, usageRecords, emailNotifications, call,
                 answer, documents, started, recorded, emitted>>

SweepStep(p) ==
  \/ SweepPendingDocs(p)
  \/ SweepGetDocuments(p)
  \/ SweepRecentReminder(p)
  \/ SweepGetUser(p)
  \/ SweepSend(p)
  \/ SweepCreateEmailNotification(p)
  \/ SweepReturn(p)

\* sweeps of any kind, overlapping
NextReminders ==
  \/ TimePassesRace
  \/ \E p \in Procs : StartOnDemandSweepRace(p)
  \/ \E p \in Procs : StartRecurringSweepRace(p)
  \/ \E p \in Procs : SweepStep(p)

SpecReminders == InitReminders /\ [][NextReminders]_vars

\* sweeps of any kind, run one after the other
NextRemindersSeq ==
  \/ TimePasses
  \/ StartOnDemandSweep(1)
  \/ StartRecurringSweep(1)
  \/ SweepStep(1)

SpecRemindersSeq == InitReminders /\ [][NextRemindersSeq]_vars

\* ------------------------------------------------- claims on the reminders
Range(s) == {s[i] : i \in 1..Len(s)}

\* the (document, recipient) pairs of a tenant
PairsOf(userId) ==
  UNION {{<<d, documentRecipients[d][i].recipientEmail>> :
            i \in 1..Len(documentRecipients[d])} :
         d \in {x \in DOMAIN documents : documents[x].userId = userId}}

RecipientPending(pair) ==
  \E i \in 1..Len(documentRecipients[pair[1]]) :
     /\ documentRecipients[pair[1]][i].recipientEmail = pair[2]
     /\ documentRecipients[pair[1]][i].status = "pending"

\* the reminders on record for the pair
RemindersOf(pair) ==
  {n \in BagToSet(emailNotifications) :
     /\ n.emailType = "signing_reminder"
     /\ n.documentId = pair[1]
     /\ n.recipientEmail = pair[2]}

\* document and recipient are pending and the document has waited long enough
Waiting(pair, now, daysThreshold) ==
  /\ documents[pair[1]].status = "pending"
  /\ RecipientPending(pair)
  /\ now - documents[pair[1]].createdAt >= daysThreshold * TicksPerDay

\* no reminder is on record for the pair, or the last one is more than two days old
CooledDown(pair, now) ==
  \A n \in RemindersOf(pair) : now - n.sentAt > CooldownDays * TicksPerDay

ReachesQuery(p) == IsSweep(p) /\ req[p].pc = "getDocuments" /\ req'[p] # req[p]

Decides(p) == IsSweep(p) /\ req[p].pc = "recentReminder" /\ req'[p] # req[p]

Selects(p) == Decides(p) /\ req'[p].pc \in {"send", "getUser"}

\* C17: a sweep goes to the reminder query with exactly the pairs of the tenant
\* whose document and recipient are pending and whose document has waited for
\* daysThreshold days, and there it decides to send exactly when no reminder is
\* on record for the pair or the last one is strictly more than 2 days old.
C17_SendsExactlyWhenDue ==
  [][\A p \in Procs :
       /\ ReachesQuery(p) =>
            \A pair \in PairsOf(Head(req[p].tenants)) :
               pair \in Range(req'[p].todo)
                 <=> Waiting(pair, clock, req[p].daysThreshold)
       /\ Decides(p) =>
            (Selects(p) <=> CooledDown(Head(req[p].todo), req[p].currentDate))]_vars

\* the reminders sent so far for the pair
SentFor(pair) ==
  {e \in BagToSet(emitted) : e.documentId = pair[1] /\ e.recipientEmail = pair[2]}

\* C18: with the sweeps run one after the other, a sweep of either kind decides
\* to send for a pair only when every reminder sent for that pair before is more
\* than 2 days old.
C18_NoReselectionWithinCooldown ==
  [][\A p \in Procs :
       Selects(p) =>
         \A e \in SentFor(Head(req[p].todo)) :
            clock - e.at > CooldownDays * TicksPerDay]_vars

\* a pair was sent a second reminder after the first one
C18_Witness ==
  \E e1, e2 \in BagToSet(emitted) :
     /\ e1.documentId = e2.documentId
     /\ e1.recipientEmail = e2.recipientEmail
     /\ e1.at < e2.at

\* C19: however sweeps over the same tenant overlap, no pair is sent two
\* reminders less than 2 days apart.
C19_NoTwoRemindersWithinCooldown ==
  \A e \in BagToSet(emitted) :
     /\ CopiesIn(e, emitted) = 1
     /\ \A f \in SentFor(<<e.documentId, e.recipientEmail>>) \ {e} :
          \/ e.at - f.at >= CooldownDays * TicksPerDay
          \/ f.at - e.at >= CooldownDays * TicksPerDay

\* the pairs one sweep of the kind sends for when it goes through the given
\* pairs of the tenant at the given date and every send succeeds
RECURSIVE SelectedOf(_, _, _, _, _)
SelectedOf(op, rows, userId, todo, currentDate) ==
  IF todo = <<>> THEN {}
  ELSE LET pair == Head(todo)
           send == shouldSendReminder(recentReminder(op, rows, userId, pair),
                                      currentDate)
           after == IF send
                    THEN rows (+) SetToBag({ReminderRow(userId, pair, currentDate)})
                    ELSE rows
       IN (IF send THEN {pair} ELSE {})
            \cup SelectedOf(op, after, userId, Tail(todo), currentDate)

\* what a sweep of the kind started now selects for the tenant
Selected(op, userId) ==
  SelectedOf(op, emailNotifications, userId,
             Due(documents, userId, clock, DefaultDaysThreshold), clock)

\* C20: on the same stored state and with daysThreshold = 3, the on-demand sweep
\* of a tenant and the recurring sweep select the same (document, recipient)
\* pairs of that tenant.
C20_SweepsSelectTheSame ==
  \A userId \in SweepUsers :
     Selected("onDemand", userId) = Selected("recurring", userId)

\* ------------------------------------------- reminders with failing storage
\* an awaited storage read or write of the recurring sweep rejects: the catch
\* around the whole callback logs the error and the callback ends
RecurringSweepThrows(p) ==
  /\ IsSweep(p) /\ req[p].op = "recurring"
  /\ req[p].pc \in {"getDocuments", "recentReminder", "getUser",
                    "createEmailNotification"}
  /\ req' = [req EXCEPT ![p].pc = "done"]
  /\ UNCHANGED <<isInitialized, backend, month, clock, usageRecords, emailNotifications, call,
                 answer, documents, started, recorded, emitted>>

\* recurring sweeps, one after the other, with storage calls that may reject
NextSweepFaults ==
  \/ TimePasses
  \/ StartRecurringSweep(1)
  \/ SweepStep(1)
  \/ RecurringSweepThrows(1)

SpecSweepFaults == InitReminders /\ [][NextSweepFaults]_vars

\* C21: when a run of the recurring sweep ends, no tenant after the one it was
\* processing is left unvisited: an exception met for one tenant does not keep
\* the run from the other tenants with pending documents.
C21_OtherTenantsStillProcessed ==
  \A p \in Procs :
     (IsSweep(p) /\ req[p].op = "recurring" /\ req[p].pc = "done")
        => Len(req[p].tenants) <= 1

\* the notifier returned false for the pair the sweep is at
FailedSend(p) ==
  /\ IsSweep(p) /\ req[p].pc = "send"
  /\ req'[p].pc \notin {"send", "createEmailNotification"}

\* C22: when the send of a reminder fails, no reminder row is written for the
\* pair, the sweep goes on with the pairs that remain, and a sweep of either
\* kind that comes next finds the pair free of any cool-down.
C22_FailedSendIsRetried ==
  [][\A p \in Procs :
       FailedSend(p) =>
         LET r == req[p]
             pair == Head(r.todo)
             userId == Head(r.tenants)
         IN /\ emailNotifications' = emailNotifications
            /\ req'[p] = Continue(r, Tail(r.todo))
            /\ \A op \in {"onDemand", "recurring"} :
                 shouldSendReminder(
                   recentReminder(op, emailNotifications', userId, pair),
                   clock')]_vars

\* ------------------------------------------------- the free-running timer
\* the setInterval callback fires, for as long as the process lives
TimerFires(p) ==
  /\ FirstIdle(p)
  /\ req' = [req EXCEPT ![p] =
               SweepFrame("recurring", "pendingDocs", <<>>, RecurringDaysThreshold)]
  /\ UNCHANGED <<isInitialized, backend, month, clock, usageRecords, emailNotifications, call,
                 answer, documents, started, recorded, emitted>>

\* sendSigningReminderNotification returns true
SweepSendSucceeds(p) ==
  /\ SweepSend(p)
  /\ req'[p].pc = "createEmailNotification"

TimerSweepStep(p) ==
  \/ SweepPendingDocs(p)
  \/ SweepGetDocuments(p)
  \/ SweepRecentReminder(p)
  \/ SweepGetUser(p)
  \/ SweepSendSucceeds(p)
  \/ SweepCreateEmailNotification(p)
  \/ SweepReturn(p)

NextTimer ==
  \/ TimePasses
  \/ TimerFires(1)
  \/ TimerSweepStep(1)

\* the timer keeps firing, every started callback runs on, time goes by
SpecTimer ==
  /\ InitReminders
  /\ [][NextTimer]_vars
  /\ WF_vars(TimePasses)
  /\ WF_vars(TimerFires(1))
  /\ WF_vars(TimerSweepStep(1))

\* the pairs of a pending recipient on a pending document
PendingPairs ==
  UNION {{<<d, documentRecipients[d][i].recipientEmail>> :
            i \in {j \in 1..Len(documentRecipients[d]) :
                     documentRecipients[d][j].status = "pending"}} :
         d \in {x \in DOMAIN storedDocuments :
                  storedDocuments[x].status = "pending"}}

\* C23: with the timer firing again and again and every send succeeding, each
\* pair of a pending recipient on a pending document is eventually sent a
\* reminder.
C23_EveryPendingPairReminded ==
  \A pair \in PendingPairs : <>(SentFor(pair) # {})

\* ------------------------------------------- claims on the upload outcome
IsUpload(p) == req[p].pc # "idle" /\ "stage" \in DOMAIN req[p]

\* the request has its response after the parse or the envelope creation of its
\* last stage was started and rejected
PerformRejected(p) ==
  /\ IsUpload(p) /\ req[p].pc = "responded"
  /\ req[p].stage \in {"ai_request", "envelope"}
  /\ req[p].code = ""
  /\ <<"check", req[p].stage>> \in Range(req[p].log)
  /\ <<"perform", req[p].stage>> \notin Range(req[p].log)

\* C24: when the AI parser or the e-signature provider rejects during an upload,
\* the handler answers the request and the document of the request is failed
\* when the response is out.
C24_RejectionFailsDocument ==
  \A p \in Procs :
     PerformRejected(p) =>
        /\ req[p].status = 200
        /\ documents[req[p].documentId].status = "failed"

\* the e-signature provider rejected after the parse had succeeded
C24_Witness ==
  \E p \in Procs : PerformRejected(p) /\ req[p].stage = "envelope"

\* ------------------------------------------------ checkAndSendUsageAlerts
MaxNotifyCalls == 4   \* calls started in one behaviour of the alert notifier

\* the tenants whose alerts are evaluated and mailed: one with an e-mail
\* address, one without
NotifyUsers == {"u1", "u2"}

\* the locals of a call checkAndSendUsageAlerts(userId)
NotifyFrame(userId) ==
  [pc |-> "getUsageThresholdAlerts", op |-> "checkAndSendUsageAlerts",
   userId |-> userId, alerts |-> <<>>, todo |-> <<>>, sent |-> <<>>]

IsNotify(p) == req[p].pc # "idle" /\ req[p].op = "checkAndSendUsageAlerts"

\* storage.getUser(userId)
getUser(userId) == users[userId]

NotifyStartRecordUsage(p) == StartRecordUsageOf(p, NotifyUsers, MaxNotifyCalls)

\* checkAndSendUsageAlerts(userId) is called: storage.getUsageThresholdAlerts(userId)
StartCheckAndSendUsageAlerts(p) ==
  /\ FirstIdle(p)
  /\ started < MaxNotifyCalls
  /\ started' = started + 1
  /\ \E userId \in NotifyUsers :
       /\ req' = [req EXCEPT ![p] = NotifyFrame(userId)]
       /\ call' = [call EXCEPT ![p] = AlertsCall(userId)]
  /\ answer' = NoAnswer
  /\ UNCHANGED <<isInitialized, backend, month, clock, usageRecords, emailNotifications,
                 documents, recorded, emitted>>

\* const alerts = await storage.getUsageThresholdAlerts(userId);
\* if (alerts.length > 0)
CheckAndSendAlerts(p) ==
  /\ IsNotify(p) /\ req[p].pc = "getUsageThresholdAlerts"
  /\ call[p].pc = "done"
  /\ req' = [req EXCEPT ![p].alerts = call[p].alerts,
                        ![p].pc = IF Len(call[p].alerts) > 0 THEN "getUser"
                                  ELSE "returned"]
  /\ call' = [call EXCEPT ![p] = IdleCall]
  /\ answer' = NoAnswer
  /\ UNCHANGED <<isInitialized, backend, month, clock, usageRecords, emailNotifications,
                 documents, started, recorded, emitted>>

\* const user = await storage.getUser(userId); if (!user || !user.email) return
CheckAndSendGetUser(p) ==
  /\ IsNotify(p) /\ req[p].pc = "getUser"
  /\ req' = [req EXCEPT ![p] =
               IF req[p].userId \notin UserIds
                  \/ getUser(req[p].userId).email = NoEmail
               THEN [@ EXCEPT !.pc = "returned"]
               ELSE [@ EXCEPT !.pc = "send", !.todo = req[p].alerts]]
  /\ answer' = NoAnswer
  /\ UNCHANGED <<isInitialized, backend, month, clock, usageRecords, emailNotifications, call,
                 documents, started, recorded, emitted>>

\* for (const alert of alerts) await sendUsageAlertNotification(user.email, ...)
CheckAndSendNotify(p) ==
  /\ IsNotify(p) /\ req[p].pc = "send"
  /\ req' = [req EXCEPT ![p].sent = Append(@, Head(req[p].todo)),
                        ![p].todo = Tail(@),
                        ![p].pc = IF Len(req[p].todo) > 1 THEN "send"
                                  ELSE "returned"]
  /\ answer' = NoAnswer
  /\ UNCHANGED <<isInitialized, backend, month, clock, usageRecords, emailNotifications, call,
                 documents, started, recorded, emitted>>

\* the promise of checkAndSendUsageAlerts resolves
CheckAndSendReturn(p) ==
  /\ IsNotify(p) /\ req[p].pc = "returned"
  /\ req' = [req EXCEPT ![p] = IdleReq]
  /\ answer' = NoAnswer
  /\ UNCHANGED <<isInitialized, backend, month, clock, usageRecords, emailNotifications, call,
                 documents, started, recorded, emitted>>

CheckAndSendStep(p) ==
  \/ CheckAndSendAlerts(p)
  \/ CheckAndSendGetUser(p)
  \/ CheckAndSendNotify(p)
  \/ CheckAndSendReturn(p)

\* usage is recorded and the alerts are evaluated and mailed, one call at a time
NextNotify ==
  \/ NotifyStartRecordUsage(1)
  \/ StartCheckAndSendUsageAlerts(1)
  \/ RecordUsageSelect(1)
  \/ RecordUsageWrite(1)
  \/ AlertsStep(1)
  \/ CheckAndSendStep(1)

SpecNotify == InitDatabase /\ [][NextNotify]_vars

\* C25: when checkAndSendUsageAlerts returns, every alert that
\* getUsageThresholdAlerts returned to it, and recorded, was handed to the
\* notifier.
C25_EveryRecordedAlertIsMailed ==
  \A p \in Procs :
     (IsNotify(p) /\ req[p].pc = "returned")
        => \A i \in 1..Len(req[p].alerts) :
              \E j \in 1..Len(req[p].sent) : req[p].sent[j] = req[p].alerts[i]

\* the handler of the request takes its step from a denied upload check
UploadDenied(p) ==
  /\ IsUpload(p) /\ req[p].pc = "check" /\ req[p].stage = "document"
  /\ ~Gate(req[p].userId, "upload_document").allowed
  /\ req'[p] # req[p]

\* C26: when canPerformAction denies the upload, the handler answers 403 with
\* the code USAGE_LIMIT_EXCEEDED and the message of the denial, and that step
\* records no usage, creates no document, evaluates no threshold and writes no
\* alert record.
C26_DeniedUploadChangesNothing ==
  [][\A p \in Procs :
       UploadDenied(p) =>
         /\ req'[p].pc = "responded"
         /\ req'[p].status = 403
         /\ req'[p].code = "USAGE_LIMIT_EXCEEDED"
         /\ req'[p].message = Gate(req[p].userId, "upload_document").message
         /\ req'[p].message # NoMessage
         /\ req'[p].log = Append(req[p].log, <<"check", "document">>)
         /\ UNCHANGED <<usageRecords, recorded, documents, emailNotifications,
                        emitted, call>>]_vars

\* a tenant with a plan was denied an upload at its limit
C26_Witness ==
  \E p \in Procs :
     /\ IsUpload(p) /\ req[p].pc = "responded"
     /\ req[p].code = "USAGE_LIMIT_EXCEEDED"
     /\ HasPlan(req[p].userId)

\* C27: on the same usage rows and for a tenant with a plan, the in-memory store
\* gives the allow/deny decision of the database store for every action kind.
C27_FallbackDecidesAlike ==
  \A userId \in LedgerUsers, actionType \in ActionTypes :
     MockCanPerformAction(usageRecords, userId, actionType, month).allowed
       = canPerformAction(usageRecords, userId, actionType, month).allowed

\* the alert records of one tenant
OwnAlertRecords(userId) ==
  SetToBag({n \in BagToSet(emailNotifications) : n.userId = userId})

\* a step of a recordUsage call
RecordUsageActs(p) == call[p].op = "recordUsage" /\ call'[p] # call[p]

\* C28: a step of recordUsage for a key leaves the total of every other key and
\* all alert records as they are, and its write adds the count to the total of
\* its own key; and whether a tenant counts as alerted for a threshold depends on
\* the alert records of that tenant alone.
C28_OnlyOwnKeyAndOwnAlerts ==
  /\ [][\A p \in Procs :
          RecordUsageActs(p) =>
            /\ \A k \in Keys :
                 IF k = <<call[p].userId, call[p].recordType, call[p].recordMonth>>
                 THEN Total(k)' = Total(k)
                                    + (IF call[p].pc = "write" THEN call[p].count ELSE 0)
                 ELSE Total(k)' = Total(k)
            /\ emailNotifications' = emailNotifications]_vars
  /\ [](\A userId \in NotifyUsers, recordType \in AlertTypes, threshold \in Thresholds :
          hasBeenAlertedForThreshold(emailNotifications, userId, recordType,
                                     threshold, month)
            = hasBeenAlertedForThreshold(OwnAlertRecords(userId), userId,
                                         recordType, threshold, month))

\* two tenants have usage on record and are both alerted for the same threshold
\* of the same kind
C28_Witness ==
  \E recordType \in AlertTypes, threshold \in Thresholds :
     /\ RecordsIn("u1", recordType, threshold, month) > 0
     /\ RecordsIn("u2", recordType, threshold, month) > 0
     /\ \A userId \in NotifyUsers : \E k \in Keys : k[1] = userId /\ Total(k) > 0


\* ------------------------------------------------- the serverless handler
MaxHandlerRequests == 4   \* requests that reach the handler in one behaviour

\* the entry of the setInterval call of registerRoutes in the history of effects
ReminderTimer == [timer |-> "reminderSweep"]

\* the recurring timers that exist in the process
Timers == CopiesIn(ReminderTimer, emitted)

HandlerFrame(pc) == [pc |-> pc, op |-> "handler"]

IsHandler(p) == req[p].pc # "idle" /\ req[p].op = "handler"

\* handler(req, res) is called: if (!isInitialized) registerRoutes(app) runs up
\* to the await of getSessionStore() in setupAuth; otherwise app(req, res)
\* serves the request at once
HandlerStart(p) ==
  /\ FirstIdle(p)
  /\ started < MaxHandlerRequests
  /\ started' = started + 1
  /\ req' = [req EXCEPT ![p] =
               IF ~isInitialized THEN HandlerFrame("getSessionStore") ELSE IdleReq]
  /\ UNCHANGED <<isInitialized, backend, month, clock, usageRecords, emailNotifications, call,
                 answer, documents, recorded, emitted>>

\* store: await getSessionStore() resumes: setupAuth installs the session and
\* passport middleware and the auth routes, and returns
HandlerSetupAuth(p) ==
  /\ IsHandler(p) /\ req[p].pc = "getSessionStore"
  /\ req' = [req EXCEPT ![p].pc = "setupAuth"]
  /\ UNCHANGED <<isInitialized, backend, month, clock, usageRecords, emailNotifications, call,
                 answer, documents, started, recorded, emitted>>

\* await setupAuth(app) resumes: registerRoutes installs the routes, calls
\* setInterval(..., 6 hours) and returns the server
HandlerRegisterRoutes(p) ==
  /\ IsHandler(p) /\ req[p].pc = "setupAuth"
  /\ emitted' = emitted (+) SetToBag({ReminderTimer})
  /\ req' = [req EXCEPT ![p].pc = "registerRoutes"]
  /\ UNCHANGED <<isInitialized, backend, month, clock, usageRecords, emailNotifications, call,
                 answer, documents, started, recorded>>

\* await registerRoutes(app) resumes: isInitialized = true; return app(req, res)
HandlerApp(p) ==
  /\ IsHandler(p) /\ req[p].pc = "registerRoutes"
  /\ isInitialized' = TRUE
  /\ req' = [req EXCEPT ![p] = IdleReq]
  /\ UNCHANGED <<backend, month, clock, usageRecords, emailNotifications, call,
                 answer, documents, started, recorded, emitted>>

HandlerStep(p) ==
  \/ HandlerSetupAuth(p)
  \/ HandlerRegisterRoutes(p)
  \/ HandlerApp(p)

\* the callback of a timer that exists fires; a timer whose callback is still
\* running does not fire again before that sweep has ended
HandlerTimerFires(p) ==
  /\ Cardinality({q \in Procs : IsSweep(q)}) < Timers
  /\ TimerFires(p)

NextHandler ==
  \/ TimePassesRace
  \/ \E p \in Procs : HandlerStart(p)
  \/ \E p \in Procs : HandlerStep(p)
  \/ \E p \in Procs : HandlerTimerFires(p)
  \/ \E p \in Procs : SweepStep(p)

SpecHandler == InitReminders /\ [][NextHandler]_vars

\* C29: whatever the interleaving of the first requests to the serverless
\* handler, registerRoutes runs at most once in the process, so at most one
\* recurring 6-hour timer exists.
C29_AtMostOneTimer == Timers <= 1

\* ------------------------------------------------- the outcome of an upload
\* the handler has created the document of the request and has sent 200 or 403
RespondedWithDocument(p) ==
  /\ IsUpload(p) /\ req[p].pc = "responded"
  /\ req[p].documentId # NoRow
  /\ req[p].status \in {200, 403}

\* the request recorded usage of the kind of the given stage
RecordedKind(p, stage) ==
  \E i \in 1..Len(req[p].log) : req[p].log[i] = <<"record", stage>>

\* C30: when the upload handler has created a document and sends 200 or 403, the
\* document is pending or failed, never still processing; when the 403 is for
\* the AI or the envelope quota the document is failed and the request recorded
\* no usage of the denied kind.
C30_ResponseLeavesNoProcessingDocument ==
  \A p \in Procs :
     RespondedWithDocument(p) =>
       /\ documents[req[p].documentId].status \in {"pending", "failed"}
       /\ req[p].status = 403 =>
            /\ req[p].code \in {"AI_LIMIT_EXCEEDED", "ENVELOPE_LIMIT_EXCEEDED"}
            /\ req[p].code = DeniedCode(req[p].stage)
            /\ documents[req[p].documentId].status = "failed"
            /\ ~RecordedKind(p, req[p].stage)

\* a request whose document had been parsed was denied the envelope
C30_Witness ==
  \E p \in Procs :
     /\ RespondedWithDocument(p)
     /\ req[p].code = "ENVELOPE_LIMIT_EXCEEDED"
     /\ RecordedKind(p, "ai_request")

====
